---- MODULE Spec2Model ----
(***************************************************************************)
(* The game engine of TetrisGame.tsx as a state machine.                   *)
(*                                                                         *)
(* Every event handler (a key or button command, the drop-loop tick, the   *)
(* lock-delay timeout, the play-time interval) is one atomic action: the   *)
(* handler's body followed by the React render that applies the state      *)
(* updates the handler queued.  Events are serial, and every handler sees  *)
(* the state of the last render.                                           *)
(*                                                                         *)
(* React semantics that the actions spell out:                             *)
(*  - setX(value) and setX(updater) are queued; an updater function runs   *)
(*    during the next render, after the handler has returned.  A variable  *)
(*    of the handler assigned inside an updater is therefore still at its  *)
(*    initial value when the handler reads it (finalizeLock).  React may   *)
(*    run the first updater of an event eagerly, inside the setX call,     *)
(*    when the component has no pending update: the lock-delay timeout is  *)
(*    the one place where that changes the outcome, and it is a            *)
(*    nondeterministic choice there.                                       *)
(*  - setY calls made inside an updater (spawnPiece) are render-phase      *)
(*    updates: they are applied after the updates the handler queued.      *)
(*  - a timeout callback keeps the canPlace closure (hence the board) of   *)
(*    the render that created the dropPiece which armed it; activeRef and  *)
(*    statusRef are read live.                                             *)
(***************************************************************************)
EXTENDS Integers, Sequences, FiniteSets, TLC

\* ------------------------------------------------------------ constants
BOARD_WIDTH == 10
BOARD_HEIGHT == 20
LOCK_DELAY == 400
LINES_PER_LEVEL == 10
COMBO_BONUS == 50
DROP_SCORE == 2
SOFT_DROP_SPEED == 40

lineScores == <<0, 100, 300, 500, 800>>

ALL_TETROMINOES == <<"I", "J", "L", "O", "S", "T", "Z">>

TetrominoType == {ALL_TETROMINOES[i] : i \in 1..Len(ALL_TETROMINOES)}

GameStatus == {"ready", "playing", "paused", "gameover"}

\* A board cell is a piece-type tag or null.
null == "null"

\* Rotation states: TETROMINOES[type][rotation + 1][y + 1][x + 1].
TETROMINOES ==
  [I |-> << << <<0,0,0,0>>, <<1,1,1,1>>, <<0,0,0,0>>, <<0,0,0,0>> >>,
            << <<0,0,1,0>>, <<0,0,1,0>>, <<0,0,1,0>>, <<0,0,1,0>> >>,
            << <<0,0,0,0>>, <<0,0,0,0>>, <<1,1,1,1>>, <<0,0,0,0>> >>,
            << <<0,1,0,0>>, <<0,1,0,0>>, <<0,1,0,0>>, <<0,1,0,0>> >> >>,
   J |-> << << <<1,0,0>>, <<1,1,1>>, <<0,0,0>> >>,
            << <<0,1,1>>, <<0,1,0>>, <<0,1,0>> >>,
            << <<0,0,0>>, <<1,1,1>>, <<0,0,1>> >>,
            << <<0,1,0>>, <<0,1,0>>, <<1,1,0>> >> >>,
   L |-> << << <<0,0,1>>, <<1,1,1>>, <<0,0,0>> >>,
            << <<0,1,0>>, <<0,1,0>>, <<0,1,1>> >>,
            << <<0,0,0>>, <<1,1,1>>, <<1,0,0>> >>,
            << <<1,1,0>>, <<0,1,0>>, <<0,1,0>> >> >>,
   O |-> << << <<0,1,1,0>>, <<0,1,1,0>>, <<0,0,0,0>>, <<0,0,0,0>> >> >>,
   S |-> << << <<0,1,1>>, <<1,1,0>>, <<0,0,0>> >>,
            << <<0,1,0>>, <<0,1,1>>, <<0,0,1>> >>,
            << <<0,0,0>>, <<0,1,1>>, <<1,1,0>> >>,
            << <<1,0,0>>, <<1,1,0>>, <<0,1,0>> >> >>,
   T |-> << << <<0,1,0>>, <<1,1,1>>, <<0,0,0>> >>,
            << <<0,1,0>>, <<0,1,1>>, <<0,1,0>> >>,
            << <<0,0,0>>, <<1,1,1>>, <<0,1,0>> >>,
            << <<0,1,0>>, <<1,1,0>>, <<0,1,0>> >> >>,
   Z |-> << << <<1,1,0>>, <<0,1,1>>, <<0,0,0>> >>,
            << <<0,0,1>>, <<0,1,1>>, <<0,1,0>> >>,
            << <<0,0,0>>, <<1,1,0>>, <<0,1,1>> >>,
            << <<0,1,0>>, <<1,1,0>>, <<1,0,0>> >> >>]

getRotations(type) == TETROMINOES[type]

\* The occupied cells of a rotation matrix, as offsets <<x, y>> from the anchor.
MatrixCells(matrix) ==
  {c \in (0..(Len(matrix[1]) - 1)) \X (0..(Len(matrix) - 1)) :
     matrix[c[2] + 1][c[1] + 1] = 1}

\* The board cells a piece covers: <<boardX, boardY>> of finalizeLock.
PieceCells(piece) ==
  {<<piece.position.x + c[1], piece.position.y + c[2]>> :
     c \in MatrixCells(getRotations(piece.type)[piece.rotation + 1])}

emptyRow == [x \in 1..BOARD_WIDTH |-> null]

createEmptyBoard == [y \in 1..BOARD_HEIGHT |-> emptyRow]

createInitialStats ==
  [score |-> 0, level |-> 0, lines |-> 0, combo |-> 0, maxCombo |-> 0,
   cleared |-> <<0, 0, 0, 0>>, tetrisCount |-> 0, hardDrops |-> 0,
   pieces |-> 0, playTime |-> 0]

Max(a, b) == IF a >= b THEN a ELSE b

Min(a, b) == IF a <= b THEN a ELSE b

\* calculateDropInterval without its lower limit.
calculateDropInterval_NoFloor(level) == 900 - level * 70

calculateDropInterval(level) == Max(90, 900 - level * 70)

\* The active piece, or NoPiece for null.
NoPiece == [type |-> null, rotation |-> 0, position |-> [x |-> 0, y |-> 0]]

Piece(type, rotation, x, y) ==
  [type |-> type, rotation |-> rotation, position |-> [x |-> x, y |-> y]]

\* spawnPiece / resetGame: the spawn configuration of a type.
SpawnOf(type) ==
  LET matrix == getRotations(type)[1]
      width == Len(matrix[1])
      spawnX == (BOARD_WIDTH - width) \div 2
      spawnY == IF type = "I" THEN -1 ELSE 0
  IN Piece(type, 0, spawnX, spawnY)

\* canPlace without the row >= 0 test: a cell above the board is refused.
canPlace_NoNegativeRows(brd, piece, offset, rotationShift) ==
  LET rotations == getRotations(piece.type)
      matrix == rotations[((piece.rotation + rotationShift + Len(rotations))
                            % Len(rotations)) + 1]
  IN \A c \in MatrixCells(matrix) :
       LET boardX == piece.position.x + c[1] + offset.x
           boardY == piece.position.y + c[2] + offset.y
       IN /\ ~(boardX < 0 \/ boardX >= BOARD_WIDTH)
          /\ ~(boardY >= BOARD_HEIGHT)
          /\ boardY >= 0
          /\ brd[boardY + 1][boardX + 1] = null

\* canPlace with the board of its closure as a parameter.
canPlace(brd, piece, offset, rotationShift) ==
  LET rotations == getRotations(piece.type)
      matrix == rotations[((piece.rotation + rotationShift + Len(rotations))
                            % Len(rotations)) + 1]
  IN \A c \in MatrixCells(matrix) :
       LET boardX == piece.position.x + c[1] + offset.x
           boardY == piece.position.y + c[2] + offset.y
       IN /\ ~(boardX < 0 \/ boardX >= BOARD_WIDTH)
          /\ ~(boardY >= BOARD_HEIGHT)
          /\ ~(boardY >= 0 /\ brd[boardY + 1][boardX + 1] # null)

Offset(x, y) == [x |-> x, y |-> y]

RowHasEmpty(row) == \E i \in 1..Len(row) : row[i] = null

\* clearLines with the empty rows pushed at the bottom.
clearLines_EmptyRowsBelow(boardState) ==
  LET next == SelectSeq(boardState, RowHasEmpty)
      clearedLines == BOARD_HEIGHT - Len(next)
  IN [next |-> next \o [i \in 1..clearedLines |-> emptyRow],
      clearedLines |-> clearedLines]

\* clearLines that counts the complete rows and leaves them on the board.
clearLines_KeepsRows(boardState) ==
  [next |-> boardState,
   clearedLines |-> BOARD_HEIGHT - Len(SelectSeq(boardState, RowHasEmpty))]

\* clearLines: the rows with an empty cell survive in order; as many empty
\* rows as were removed are put on top.
clearLines(boardState) ==
  LET next == SelectSeq(boardState, RowHasEmpty)
      clearedLines == BOARD_HEIGHT - Len(next)
  IN IF clearedLines = 0
       THEN [next |-> boardState, clearedLines |-> 0]
       ELSE [next |-> [i \in 1..clearedLines |-> emptyRow] \o next,
             clearedLines |-> clearedLines]

\* updateForClear taking the level from the lines before the clear.
updateForClear_LevelBeforeClear(prev, clearedLines) ==
  IF clearedLines = 0
    THEN [prev EXCEPT !.combo = 0]
    ELSE
      LET points == IF clearedLines + 1 <= Len(lineScores)
                      THEN lineScores[clearedLines + 1]
                      ELSE clearedLines * 200
          newCombo == prev.combo + 1
          comboBonus == IF newCombo > 1 THEN (newCombo - 1) * COMBO_BONUS ELSE 0
          newLines == prev.lines + clearedLines
          newLevel == prev.lines \div LINES_PER_LEVEL
          tetrisCount == IF clearedLines = 4 THEN prev.tetrisCount + 1
                                             ELSE prev.tetrisCount
      IN [prev EXCEPT
            !.score = prev.score + points * (prev.level + 1)
                                 + comboBonus * (prev.level + 1),
            !.level = newLevel,
            !.lines = newLines,
            !.combo = newCombo,
            !.maxCombo = Max(prev.maxCombo, newCombo),
            !.cleared = [idx \in 1..Len(prev.cleared) |->
                           IF idx - 1 = clearedLines - 1
                             THEN prev.cleared[idx] + 1
                             ELSE prev.cleared[idx]],
            !.tetrisCount = tetrisCount]

\* updateForClear as the stats it leaves: the setStats updater of either branch.
updateForClear(prev, clearedLines) ==
  IF clearedLines = 0
    THEN [prev EXCEPT !.combo = 0]
    ELSE
      LET points == IF clearedLines + 1 <= Len(lineScores)
                      THEN lineScores[clearedLines + 1]
                      ELSE clearedLines * 200
          newCombo == prev.combo + 1
          comboBonus == IF newCombo > 1 THEN (newCombo - 1) * COMBO_BONUS ELSE 0
          newLines == prev.lines + clearedLines
          newLevel == newLines \div LINES_PER_LEVEL
          tetrisCount == IF clearedLines = 4 THEN prev.tetrisCount + 1
                                             ELSE prev.tetrisCount
      IN [prev EXCEPT
            !.score = prev.score + points * (prev.level + 1)
                                 + comboBonus * (prev.level + 1),
            !.level = newLevel,
            !.lines = newLines,
            !.combo = newCombo,
            !.maxCombo = Max(prev.maxCombo, newCombo),
            !.cleared = [idx \in 1..Len(prev.cleared) |->
                           IF idx - 1 = clearedLines - 1
                             THEN prev.cleared[idx] + 1
                             ELSE prev.cleared[idx]],
            !.tetrisCount = tetrisCount]

\* The setBoard updater of finalizeLock: a cell at a negative row aborts the
\* write and returns the previous board; otherwise the cells are written and
\* the completed rows cleared.
LockBoard(prev, piece) ==
  LET cells == PieceCells(piece)
      over == \E c \in cells : c[2] < 0
      next == [y \in 1..BOARD_HEIGHT |-> [x \in 1..BOARD_WIDTH |->
                 IF <<x - 1, y - 1>> \in cells THEN piece.type ELSE prev[y][x]]]
      result == clearLines(next)
  IN IF over
       THEN [next |-> prev, clearedLines |-> 0, over |-> TRUE]
       ELSE [next |-> result.next, clearedLines |-> result.clearedLines,
             over |-> FALSE]

\* spawnPiece that ignores forcedType.
spawnPiece_NoForcedType(prevQueue, forcedType, bagF, bagR) ==
  LET type == IF Len(prevQueue) > 0 THEN Head(prevQueue) ELSE bagF[1]
      shifted == IF Len(prevQueue) = 0 THEN prevQueue ELSE Tail(prevQueue)
      nextQueue == IF Len(shifted) < 7 THEN shifted \o bagR ELSE shifted
  IN [active |-> SpawnOf(type), queue |-> nextQueue]

\* spawnPiece that never refills the queue.
spawnPiece_NoRefill(prevQueue, forcedType, bagF, bagR) ==
  LET type == IF forcedType # null THEN forcedType
              ELSE IF Len(prevQueue) > 0 THEN Head(prevQueue)
              ELSE bagF[1]
      shifted == IF forcedType # null \/ Len(prevQueue) = 0
                   THEN prevQueue ELSE Tail(prevQueue)
  IN [active |-> SpawnOf(type), queue |-> shifted]

\* spawnPiece that shifts the queue also when it is given a forcedType.
spawnPiece_ShiftsForced(prevQueue, forcedType, bagF, bagR) ==
  LET type == IF forcedType # null THEN forcedType
              ELSE IF Len(prevQueue) > 0 THEN Head(prevQueue)
              ELSE bagF[1]
      shifted == IF Len(prevQueue) = 0 THEN prevQueue ELSE Tail(prevQueue)
      nextQueue == IF Len(shifted) < 7 THEN shifted \o bagR ELSE shifted
  IN [active |-> SpawnOf(type), queue |-> nextQueue]

\* The setQueue updater of spawnPiece: the type spawned and the queue left.
\* bagF is the bag of the empty-queue fallback, bagR the bag of the refill.
spawnPiece(prevQueue, forcedType, bagF, bagR) ==
  LET type == IF forcedType # null THEN forcedType
              ELSE IF Len(prevQueue) > 0 THEN Head(prevQueue)
              ELSE bagF[1]
      shifted == IF forcedType # null \/ Len(prevQueue) = 0
                   THEN prevQueue ELSE Tail(prevQueue)
      nextQueue == IF Len(shifted) < 7 THEN shifted \o bagR ELSE shifted
  IN [active |-> SpawnOf(type), queue |-> nextQueue]

\* finalizeLock without the setHighScore of the game-over branch.
finalizeLock_NoHighScore(brd, piece, q, st, held, hs, eager, bagF, bagR) ==
  LET locked == LockBoard(brd, piece)
      linesCleared == IF eager THEN locked.clearedLines ELSE 0
      triggeredGameOver == IF eager THEN locked.over ELSE FALSE
      sp == spawnPiece(q, null, bagF, bagR)
      cleared == updateForClear(st, linesCleared)
  IN IF triggeredGameOver
       THEN [board |-> locked.next, active |-> NoPiece, queue |-> q,
             hasHeld |-> held, status |-> "gameover",
             stats |-> [st EXCEPT !.combo = 0],
             highScore |-> hs,
             gameOver |-> TRUE]
       ELSE [board |-> locked.next, active |-> sp.active, queue |-> sp.queue,
             hasHeld |-> FALSE, status |-> "playing",
             stats |-> [cleared EXCEPT !.pieces = cleared.pieces + 1],
             highScore |-> hs,
             gameOver |-> FALSE]

\* finalizeLock without the spawnPiece() that ends it.
finalizeLock_NoSpawn(brd, piece, q, st, held, hs, eager, bagF, bagR) ==
  LET locked == LockBoard(brd, piece)
      linesCleared == IF eager THEN locked.clearedLines ELSE 0
      triggeredGameOver == IF eager THEN locked.over ELSE FALSE
      cleared == updateForClear(st, linesCleared)
  IN IF triggeredGameOver
       THEN [board |-> locked.next, active |-> NoPiece, queue |-> q,
             hasHeld |-> held, status |-> "gameover",
             stats |-> [st EXCEPT !.combo = 0],
             highScore |-> IF st.score > hs THEN st.score ELSE hs,
             gameOver |-> TRUE]
       ELSE [board |-> locked.next, active |-> NoPiece, queue |-> q,
             hasHeld |-> held, status |-> "playing",
             stats |-> cleared,
             highScore |-> hs,
             gameOver |-> FALSE]

\* finalizeLock(piece) together with the render that follows it.  st is the
\* stats with the updates the caller queued before the call.  linesCleared and
\* triggeredGameOver are assigned inside the setBoard updater: the handler
\* reads the assigned values only when the updater ran eagerly.
finalizeLock(brd, piece, q, st, held, hs, eager, bagF, bagR) ==
  LET locked == LockBoard(brd, piece)
      linesCleared == IF eager THEN locked.clearedLines ELSE 0
      triggeredGameOver == IF eager THEN locked.over ELSE FALSE
      sp == spawnPiece(q, null, bagF, bagR)
      cleared == updateForClear(st, linesCleared)
  IN IF triggeredGameOver
       THEN [board |-> locked.next, active |-> NoPiece, queue |-> q,
             hasHeld |-> held, status |-> "gameover",
             stats |-> [st EXCEPT !.combo = 0],
             highScore |-> IF st.score > hs THEN st.score ELSE hs,
             gameOver |-> TRUE]
       ELSE [board |-> locked.next, active |-> sp.active, queue |-> sp.queue,
             hasHeld |-> FALSE, status |-> "playing",
             stats |-> [cleared EXCEPT !.pieces = cleared.pieces + 1],
             highScore |-> hs,
             gameOver |-> FALSE]

\* The descent loop stopping one row above the resting position.
DropDistance_OneShort(brd, piece) ==
  LET resting == CHOOSE d \in 0..(BOARD_HEIGHT + 4) :
                   /\ ~canPlace(brd, piece, Offset(0, d + 1), 0)
                   /\ \A e \in 0..(d - 1) :
                        canPlace(brd, piece, Offset(0, e + 1), 0)
  IN Max(0, resting - 1)

\* The resting position of hardDrop and of the ghost piece.
DropDistance(brd, piece) ==
  CHOOSE d \in 0..(BOARD_HEIGHT + 4) :
    /\ ~canPlace(brd, piece, Offset(0, d + 1), 0)
    /\ \A e \in 0..(d - 1) : canPlace(brd, piece, Offset(0, e + 1), 0)

MovedBy(piece, dx, dy) ==
  [piece EXCEPT !.position = [x |-> piece.position.x + dx,
                              y |-> piece.position.y + dy]]

\* rotatePiece: the kicks in their order.
kicks == <<Offset(0, 0), Offset(-1, 0), Offset(1, 0), Offset(0, -1), Offset(0, 1)>>

\* The kick loop without its return: the last accepted kick is applied.
FirstKick_NoReturn(brd, piece, dir) ==
  IF \E i \in 1..Len(kicks) : canPlace(brd, piece, kicks[i], dir)
    THEN CHOOSE i \in 1..Len(kicks) :
           /\ canPlace(brd, piece, kicks[i], dir)
           /\ \A j \in (i + 1)..Len(kicks) : ~canPlace(brd, piece, kicks[j], dir)
    ELSE 0

\* The index of the first kick canPlace accepts, or 0.
FirstKick(brd, piece, dir) ==
  IF \E i \in 1..Len(kicks) : canPlace(brd, piece, kicks[i], dir)
    THEN CHOOSE i \in 1..Len(kicks) :
           /\ canPlace(brd, piece, kicks[i], dir)
           /\ \A j \in 1..(i - 1) : ~canPlace(brd, piece, kicks[j], dir)
    ELSE 0

\* nextRotation without the wrap-around.
nextRotation_NoWrap(piece, dir) == piece.rotation + dir

nextRotation(piece, dir) ==
  (piece.rotation + dir + Len(getRotations(piece.type)))
    % Len(getRotations(piece.type))

\* The setStatus updater of togglePause without its last branch.
togglePauseStatus_TwoBranches(prev) ==
  IF prev = "playing" THEN "paused" ELSE "playing"

\* togglePause: the setStatus updater.
togglePauseStatus(prev) ==
  IF prev = "playing" THEN "paused"
  ELSE IF prev = "paused" THEN "playing"
  ELSE prev

\* ------------------------------------------------------------ bounds
\* Time advances in steps of TimeStep ms.
TimeStep == 300
\* The shuffles generateBag may return are the first NumBags of BagTable.
NumBags == 2
\* Per behaviour: pieces spawned by a lock or a hold, rows descended,
\* play-time ticks.
MaxSpawns == 2
MaxRows == 2
MaxSeconds == 1
\* Per behaviour: successful moves and rotations.
MaxMoves == 1
\* The games of a behaviour that are explored with these budgets; a game
\* started after them is followed without further descents, moves or spawns.
MaxGames == 1

\* generateBag with its random draws given: draws[i] is the index j drawn in
\* the iteration i of the loop, 0 <= j <= i, for i from 6 down to 1.
RECURSIVE shuffleFrom(_, _, _)
shuffleFrom(bag, i, draws) ==
  IF i < 1 THEN bag
  ELSE shuffleFrom([bag EXCEPT ![i + 1] = bag[draws[i] + 1],
                               ![draws[i] + 1] = bag[i + 1]],
                   i - 1, draws)

\* The loop with an assignment in place of the swap.
RECURSIVE overwriteFrom(_, _, _)
overwriteFrom(bag, i, draws) ==
  IF i < 1 THEN bag
  ELSE overwriteFrom([bag EXCEPT ![i + 1] = bag[draws[i] + 1]], i - 1, draws)

shuffle_Overwrite(draws) ==
  overwriteFrom(ALL_TETROMINOES, Len(ALL_TETROMINOES) - 1, draws)

shuffle(draws) == shuffleFrom(ALL_TETROMINOES, Len(ALL_TETROMINOES) - 1, draws)

\* Every sequence of draws Math.random() can give the loop.
RandomDraws ==
  {draws \in [1..(Len(ALL_TETROMINOES) - 1) -> 0..(Len(ALL_TETROMINOES) - 1)] :
     \A i \in DOMAIN draws : draws[i] <= i}

\* The draws of the bags the model chooses from: they give IJLOSTZ, OTIZJSL,
\* TSZLIOJ and ZLOJTIS.
BagDraws ==
  << <<1, 2, 3, 4, 5, 6>>,
     <<1, 0, 2, 1, 4, 2>>,
     <<0, 1, 2, 0, 3, 1>>,
     <<1, 1, 1, 0, 0, 4>> >>

BagTable == [k \in 1..Len(BagDraws) |-> shuffle(BagDraws[k])]

\* generateBag: the permutations a Fisher-Yates shuffle may return.
generateBag == {BagTable[i] : i \in 1..Min(NumBags, Len(BagTable))}

\* The bags a call of spawnPiece draws: generateBag is called for the fallback
\* only when the queue is empty, and for the refill only when fewer than 7
\* types are left; a bag that is not drawn is not a choice.
FallbackBags(prevQueue, forcedType) ==
  IF forcedType = null /\ Len(prevQueue) = 0 THEN generateBag
                                              ELSE {BagTable[1]}

RefillBags(prevQueue, forcedType) ==
  IF Len(prevQueue) - (IF forcedType = null /\ Len(prevQueue) > 0 THEN 1 ELSE 0) < 7
    THEN generateBag ELSE {BagTable[1]}

\* The largest drop interval: elapsed saturates there.
MaxElapsed == calculateDropInterval(0)

FullBudget ==
  [spawns |-> MaxSpawns, rows |-> MaxRows, seconds |-> MaxSeconds,
   moves |-> MaxMoves, games |-> MaxGames]

NoBudget == [spawns |-> 0, rows |-> 0, seconds |-> 0, moves |-> 0, games |-> 0]

\* ------------------------------------------------------------ state
VARIABLES
  board,        \* useState board
  active,       \* useState active (activeRef follows it after each render)
  queue,        \* useState queue
  hold,         \* useState hold
  hasHeld,      \* useState hasHeld
  status,       \* useState status (statusRef follows it)
  stats,        \* useState stats (statsRef follows it)
  highScore,    \* useState highScore
  timers,       \* the pending lock-delay timeouts, oldest first
  lockTimeout,  \* lockTimeout.current holds the handle of a pending timeout
  elapsed,      \* Date.now() - lastTickRef.current, saturating at MaxElapsed
  softDropping, \* softDroppingRef.current
  gameOverRef,  \* gameOverRef.current
  drawn,        \* history: the types taken from the queue in the current
                \* group of seven, in order
  budget        \* what is left of the exploration bounds

vars == <<board, active, queue, hold, hasHeld, status, stats, highScore,
          timers, lockTimeout, elapsed, softDropping, gameOverRef, drawn,
          budget>>

\* The state after the component is constructed.
Init ==
  /\ board = createEmptyBoard
  /\ active = NoPiece
  /\ queue \in {b1 \o b2 : b1 \in generateBag, b2 \in generateBag}
  /\ hold = null
  /\ hasHeld = FALSE
  /\ status = "ready"
  /\ stats = createInitialStats
  /\ highScore = 0
  /\ timers = <<>>
  /\ lockTimeout = FALSE
  /\ elapsed = MaxElapsed
  /\ softDropping = FALSE
  /\ gameOverRef = FALSE
  /\ drawn = <<>>
  /\ budget = FullBudget

\* clearTimeout(lockTimeout.current): the handle is of the newest timeout.
ClearLockTimeout(ts, ref) ==
  IF ref THEN SubSeq(ts, 1, Len(ts) - 1) ELSE ts

\* A timeout as dropPiece arms it.  current is history: the timeout was armed
\* for the piece that is active now, not for one before it.
Armed(brd) == [left |-> LOCK_DELAY, board |-> brd, current |-> TRUE]

\* The pending timeouts once another piece has become the active piece.
Outlived(ts) == [i \in 1..Len(ts) |-> [ts[i] EXCEPT !.current = FALSE]]

\* The history of the queue after type has been taken from it.
Draw(type) ==
  IF Len(drawn) = Len(ALL_TETROMINOES) THEN <<type>> ELSE Append(drawn, type)

\* ------------------------------------------------------------ handlers
\* startGame: setStatus("playing"); resetGame().  The Restart button calls it
\* in every status.
startGame ==
  \E b1 \in generateBag, b2 \in generateBag :
    LET bag == b1 \o b2
        firstType == Head(bag)
    IN /\ status' = "playing"
       /\ timers' = Outlived(ClearLockTimeout(timers, lockTimeout))
       /\ lockTimeout' = FALSE
       /\ board' = createEmptyBoard
       /\ stats' = [createInitialStats EXCEPT !.pieces = 1]
       /\ queue' = Tail(bag)
       /\ hold' = null
       /\ hasHeld' = FALSE
       /\ gameOverRef' = FALSE
       /\ elapsed' = 0
       /\ active' = SpawnOf(firstType)
       /\ drawn' = <<firstType>>
       /\ budget' = IF budget.games > 0
                       THEN [budget EXCEPT !.games = @ - 1]
                       ELSE NoBudget
       /\ UNCHANGED <<highScore, softDropping>>

\* togglePause that leaves lastTickRef as it is on resume.
togglePause_KeepsLastTick ==
  /\ status \in {"playing", "paused"}
  /\ status' = togglePauseStatus(status)
  /\ UNCHANGED <<board, active, queue, hold, hasHeld, stats, highScore,
                 timers, lockTimeout, elapsed, softDropping, gameOverRef,
                 drawn, budget>>

\* togglePause, called by Escape and by the Pause/Resume button while the
\* status is playing or paused.  Resuming sets lastTickRef to now.
togglePause ==
  /\ status \in {"playing", "paused"}
  /\ status' = togglePauseStatus(status)
  /\ elapsed' = IF status = "paused" THEN 0 ELSE elapsed
  /\ UNCHANGED <<board, active, queue, hold, hasHeld, stats, highScore,
                 timers, lockTimeout, softDropping, gameOverRef, drawn,
                 budget>>

\* dropPiece without its status guard.
dropPiece_IgnoresStatus(soft) ==
  IF active = NoPiece
    THEN UNCHANGED <<active, stats, timers, lockTimeout, budget>>
    ELSE IF canPlace(board, active, Offset(0, 1), 0)
      THEN /\ budget.rows > 0
           /\ budget' = [budget EXCEPT !.rows = @ - 1]
           /\ active' = MovedBy(active, 0, 1)
           /\ stats' = IF soft THEN [stats EXCEPT !.score = @ + DROP_SCORE]
                               ELSE stats
           /\ UNCHANGED <<timers, lockTimeout>>
      ELSE /\ timers' = Append(ClearLockTimeout(timers, lockTimeout),
                               Armed(board))
           /\ lockTimeout' = TRUE
           /\ UNCHANGED <<active, stats, budget>>

\* dropPiece(soft): what it does to active, stats and the lock-delay timeout.
dropPiece(soft) ==
  IF active = NoPiece \/ status # "playing"
    THEN UNCHANGED <<active, stats, timers, lockTimeout, budget>>
    ELSE IF canPlace(board, active, Offset(0, 1), 0)
      THEN /\ budget.rows > 0
           /\ budget' = [budget EXCEPT !.rows = @ - 1]
           /\ active' = MovedBy(active, 0, 1)
           /\ stats' = IF soft THEN [stats EXCEPT !.score = @ + DROP_SCORE]
                               ELSE stats
           /\ UNCHANGED <<timers, lockTimeout>>
      ELSE /\ timers' = Append(ClearLockTimeout(timers, lockTimeout),
                               Armed(board))
           /\ lockTimeout' = TRUE
           /\ UNCHANGED <<active, stats, budget>>

\* dropLoop that advances lastTickRef by one interval only, so that the ticks
\* that follow catch up on the intervals missed.
dropLoop_CatchUp ==
  /\ status = "playing"
  /\ IF Len(timers) = 0 THEN TRUE ELSE Head(timers).left > 0
  /\ LET interval == IF softDropping THEN SOFT_DROP_SPEED
                                     ELSE calculateDropInterval(stats.level)
     IN /\ elapsed >= interval
        /\ elapsed' = elapsed - interval
  /\ dropPiece(softDropping)
  /\ UNCHANGED <<board, queue, hold, hasHeld, status, highScore,
                 softDropping, gameOverRef, drawn>>

\* dropLoop, run by the 16 ms tick while playing: one descent attempt once
\* the drop interval has elapsed.  The tick is a timeout itself: a lock-delay
\* timeout whose delay has passed runs before it.
dropLoop ==
  /\ status = "playing"
  /\ IF Len(timers) = 0 THEN TRUE ELSE Head(timers).left > 0
  /\ LET interval == IF softDropping THEN SOFT_DROP_SPEED
                                     ELSE calculateDropInterval(stats.level)
     IN elapsed >= interval
  /\ elapsed' = 0
  /\ dropPiece(softDropping)
  /\ UNCHANGED <<board, queue, hold, hasHeld, status, highScore,
                 softDropping, gameOverRef, drawn>>

\* keydown ArrowDown / KeyS while playing.
softDropKey ==
  /\ status = "playing"
  /\ softDropping' = TRUE
  /\ dropPiece(TRUE)
  /\ UNCHANGED <<board, queue, hold, hasHeld, status, highScore, elapsed,
                 gameOverRef, drawn>>

\* The on-screen soft-drop button: dropPiece(true).
softDropButton ==
  /\ dropPiece(TRUE)
  /\ UNCHANGED <<board, queue, hold, hasHeld, status, highScore, elapsed,
                 softDropping, gameOverRef, drawn>>

\* keyup ArrowDown / KeyS.
softDropKeyUp ==
  /\ softDropping
  /\ softDropping' = FALSE
  /\ UNCHANGED <<board, active, queue, hold, hasHeld, status, stats,
                 highScore, timers, lockTimeout, elapsed, gameOverRef, drawn,
                 budget>>

\* movePiece(dir).
movePiece(dir) ==
  IF active = NoPiece \/ status # "playing"
       \/ ~canPlace(board, active, Offset(dir, 0), 0)
    THEN UNCHANGED vars
    ELSE /\ budget.moves > 0
         /\ budget' = [budget EXCEPT !.moves = @ - 1]
         /\ active' = MovedBy(active, dir, 0)
         /\ timers' = ClearLockTimeout(timers, lockTimeout)
         /\ lockTimeout' = FALSE
         /\ UNCHANGED <<board, queue, hold, hasHeld, status, stats, highScore,
                        elapsed, softDropping, gameOverRef, drawn>>

\* rotatePiece(dir).
rotatePiece(dir) ==
  IF active = NoPiece \/ status # "playing"
       \/ FirstKick(board, active, dir) = 0
    THEN UNCHANGED vars
    ELSE LET kick == kicks[FirstKick(board, active, dir)]
         IN /\ budget.moves > 0
            /\ budget' = [budget EXCEPT !.moves = @ - 1]
            /\ active' = [MovedBy(active, kick.x, kick.y)
                            EXCEPT !.rotation = nextRotation(active, dir)]
            /\ timers' = ClearLockTimeout(timers, lockTimeout)
            /\ lockTimeout' = FALSE
            /\ UNCHANGED <<board, queue, hold, hasHeld, status, stats,
                           highScore, elapsed, softDropping, gameOverRef,
                           drawn>>

\* hardDrop.  setStats is queued before finalizeLock is called, so the
\* setBoard updater of finalizeLock runs in the render, never eagerly.
\* finalizeLock sets lockTimeout.current to null without clearTimeout.
hardDrop ==
  IF active = NoPiece \/ status # "playing"
    THEN UNCHANGED vars
    ELSE
      \E bagF \in FallbackBags(queue, null), bagR \in RefillBags(queue, null) :
        LET distance == DropDistance(board, active)
            ghost == MovedBy(active, 0, distance)
            st == [stats EXCEPT !.score = @ + distance * DROP_SCORE * 3,
                                !.hardDrops = @ + 1]
            r == finalizeLock(board, ghost, queue, st, hasHeld, highScore,
                              FALSE, bagF, bagR)
        IN /\ budget.rows >= distance
           /\ budget.spawns > 0
           /\ budget' = [budget EXCEPT !.rows = @ - distance,
                                       !.spawns = @ - 1]
           /\ board' = r.board
           /\ active' = r.active
           /\ queue' = r.queue
           /\ hasHeld' = r.hasHeld
           /\ status' = r.status
           /\ stats' = r.stats
           /\ highScore' = r.highScore
           /\ gameOverRef' = (gameOverRef \/ r.gameOver)
           /\ drawn' = Draw(r.active.type)
           /\ lockTimeout' = FALSE
           /\ timers' = Outlived(timers)
           /\ UNCHANGED <<hold, elapsed, softDropping>>

\* holdPiece.  setHasHeld(true) and setActive(null) are queued by the handler;
\* the setActive, setHasHeld(false) and setStats of spawnPiece run inside the
\* setQueue updater, in the render, and are applied after them.
holdPiece ==
  IF active = NoPiece \/ status # "playing" \/ hasHeld
    THEN UNCHANGED vars
    ELSE
      \E bagF \in FallbackBags(queue, hold), bagR \in RefillBags(queue, hold) :
        LET sp == spawnPiece(queue, hold, bagF, bagR)
        IN /\ budget.spawns > 0
           /\ budget' = [budget EXCEPT !.spawns = @ - 1]
           /\ timers' = Outlived(ClearLockTimeout(timers, lockTimeout))
           /\ lockTimeout' = FALSE
           /\ hold' = active.type
           /\ queue' = sp.queue
           /\ active' = sp.active
           /\ hasHeld' = FALSE
           /\ stats' = [stats EXCEPT !.pieces = @ + 1]
           /\ drawn' = IF hold = null THEN Draw(sp.active.type) ELSE drawn
           /\ UNCHANGED <<board, status, highScore, elapsed, softDropping,
                          gameOverRef>>

\* The callback of a lock-delay timeout whose delay has passed.  canPlace is
\* the closure of the render that armed it (the board of that render).
lockTimeoutFires ==
  /\ IF Len(timers) = 0 THEN FALSE ELSE Head(timers).left = 0
  /\ LET t == Head(timers)
         rest == Tail(timers)
         ref == lockTimeout /\ Len(rest) > 0
     IN IF \/ active = NoPiece
           \/ status # "playing"
           \/ canPlace(t.board, active, Offset(0, 1), 0)
             THEN /\ lockTimeout' = ref
                  /\ timers' = rest
                  /\ UNCHANGED <<board, active, queue, hold, hasHeld, status,
                                 stats, highScore, elapsed, softDropping,
                                 gameOverRef, drawn, budget>>
             ELSE
               \E eager \in BOOLEAN, bagF \in FallbackBags(queue, null),
                  bagR \in RefillBags(queue, null) :
                 LET r == finalizeLock(board, active, queue, stats, hasHeld,
                                       highScore, eager, bagF, bagR)
                 IN /\ r.gameOver \/ budget.spawns > 0
                    /\ budget' = IF r.gameOver THEN budget
                                 ELSE [budget EXCEPT !.spawns = @ - 1]
                    /\ board' = r.board
                    /\ active' = r.active
                    /\ queue' = r.queue
                    /\ hasHeld' = r.hasHeld
                    /\ status' = r.status
                    /\ stats' = r.stats
                    /\ highScore' = r.highScore
                    /\ gameOverRef' = (gameOverRef \/ r.gameOver)
                    /\ drawn' = IF r.gameOver THEN drawn
                                 ELSE Draw(r.active.type)
                    /\ lockTimeout' = IF r.gameOver THEN ref ELSE FALSE
                    /\ timers' = IF r.gameOver THEN rest ELSE Outlived(rest)
                    /\ UNCHANGED <<hold, elapsed, softDropping>>

\* The 1 s interval that counts play time while playing.
playTimeTick ==
  /\ status = "playing"
  /\ budget.seconds > 0
  /\ budget' = [budget EXCEPT !.seconds = @ - 1]
  /\ stats' = [stats EXCEPT !.playTime = @ + 1]
  /\ UNCHANGED <<board, active, queue, hold, hasHeld, status, highScore,
                 timers, lockTimeout, elapsed, softDropping, gameOverRef,
                 drawn>>

\* TimeStep ms pass.  A timeout whose delay has passed fires first.
advance ==
  /\ IF Len(timers) = 0 THEN TRUE ELSE Head(timers).left > 0
  /\ elapsed' = Min(MaxElapsed, elapsed + TimeStep)
  /\ timers' = [i \in 1..Len(timers) |->
                  [timers[i] EXCEPT !.left = Max(0, @ - TimeStep)]]
  /\ UNCHANGED <<board, active, queue, hold, hasHeld, status, stats,
                 highScore, lockTimeout, softDropping, gameOverRef, drawn,
                 budget>>

Next ==
  \/ startGame
  \/ togglePause
  \/ dropLoop
  \/ softDropKey
  \/ softDropButton
  \/ softDropKeyUp
  \/ \E dir \in {-1, 1} : movePiece(dir)
  \/ \E dir \in {-1, 1} : rotatePiece(dir)
  \/ hardDrop
  \/ holdPiece
  \/ lockTimeoutFires
  \/ playTimeTick
  \/ advance

Spec == Init /\ [][Next]_vars

\* ------------------------------------------------------------ a game in progress
\* The board after 36 pieces of one game have been locked by lock-delay
\* timeouts, none of them completing a row: bags JIOLZST ILTOZSJ ITSZJOL
\* ISTZLJO IJTZSOL and the J of the sixth bag.
StackBoard ==
  << <<null, null, null, null, null, null, null, null, null, null>>,
     <<null, null, null, null, null, null, null, null, null, null>>,
     <<"T", "Z", "Z", null, null, null, null, "J", "J", "J">>,
     <<"T", "T", "Z", "Z", "L", "L", null, "O", "O", "J">>,
     <<"T", null, "J", "O", "O", "L", null, "O", "O", null>>,
     <<"J", "J", "J", "O", "O", "L", null, "L", "S", null>>,
     <<"J", "J", "J", "Z", null, null, null, "L", "S", "S">>,
     <<"J", "L", "Z", "Z", "T", null, null, "L", "L", "S">>,
     <<null, "L", "Z", "T", "T", null, null, "O", "O", null>>,
     <<null, "L", "L", "S", "T", null, null, "O", "O", null>>,
     <<"I", "Z", "Z", "S", "S", null, null, "J", "J", null>>,
     <<"I", "S", "Z", "Z", "S", "T", null, "J", "J", null>>,
     <<"I", "S", "S", "S", "T", "T", null, "J", "J", "I">>,
     <<"I", "Z", "S", "S", "S", "T", null, "J", "J", "I">>,
     <<"Z", "Z", "T", "T", "S", "I", null, "O", "O", "I">>,
     <<"Z", "T", "T", "T", "T", "I", null, "O", "O", "I">>,
     <<"I", "I", "T", "T", "Z", "I", null, "S", "L", "L">>,
     <<"I", "I", "L", "Z", "Z", "I", null, "S", "S", "L">>,
     <<"I", "I", "L", "Z", "O", "O", null, "J", "S", "L">>,
     <<"I", "I", "L", "L", "O", "O", null, "J", "J", "J">> >>

\* The queue of that game: what is left of the sixth bag after J and I, and
\* the seventh bag.
StackQueue == <<"T", "O", "L", "S", "Z">> \o BagTable[1]

\* That game as the 37th piece, the I of the sixth bag, has spawned.  No piece
\* was soft- or hard-dropped and no hold was made, so the score counters are
\* at their initial values.
InitStack ==
  /\ board = StackBoard
  /\ active = SpawnOf("I")
  /\ queue = StackQueue
  /\ hold = null
  /\ hasHeld = FALSE
  /\ status = "playing"
  /\ stats = [createInitialStats EXCEPT !.pieces = 37]
  /\ highScore = 0
  /\ timers = <<>>
  /\ lockTimeout = FALSE
  /\ elapsed = 0
  /\ softDropping = FALSE
  /\ gameOverRef = FALSE
  /\ drawn = <<"J", "I">>
  /\ budget = [FullBudget EXCEPT !.games = MaxGames - 1]

\* The board of a longer game as its 63rd piece spawns.  62 pieces were locked
\* by lock-delay timeouts: bags ITSJLZO ZSITLJO TILSJOZ IJSLOZT ISZTJOL
\* ZIOLTJS ITJOLZS IZLJTSO and ZLJSTO of the ninth.  Pieces 4, 7, 10, 12, 16,
\* 18 and 22 completed one row each and piece 23 two rows.
LateBoard ==
  << <<null, null, null, null, null, null, null, null, null, null>>,
     <<null, null, null, null, null, null, null, null, null, null>>,
     <<"J", "J", "S", null, null, null, null, "T", "T", "T">>,
     <<"J", null, "S", "S", "O", "O", "L", "L", "T", null>>,
     <<"J", "S", null, "S", "O", "O", "Z", "L", "O", "O">>,
     <<"T", "S", "S", "J", null, "Z", "Z", "L", "O", "O">>,
     <<"T", "T", "S", "J", null, "Z", "Z", "S", "L", "L">>,
     <<"T", "Z", "J", "J", null, "Z", "Z", "S", "S", "L">>,
     <<"Z", "Z", "I", "I", null, "Z", "L", "L", "S", "L">>,
     <<"Z", "T", "I", "I", null, "J", "J", "L", "O", "O">>,
     <<"T", "T", "I", "I", null, "J", "S", "L", "O", "O">>,
     <<"T", "T", "I", "I", null, "J", "S", "S", "J", "I">>,
     <<"T", "T", "L", "L", null, "O", "O", "S", "J", "I">>,
     <<"T", "Z", "L", "L", null, "O", "O", "J", "J", "I">>,
     <<"Z", "Z", "L", "L", null, "J", "J", "O", "O", "I">>,
     <<"Z", "Z", "L", "L", null, "J", "I", "O", "O", "T">>,
     <<"Z", "Z", "S", "S", null, "J", "I", "T", "T", "T">>,
     <<"Z", "S", "S", "Z", null, "L", "I", "T", "T", "T">>,
     <<"O", "O", "Z", "Z", null, "L", "I", "T", "S", "S">>,
     <<"O", "O", "Z", "Z", null, "L", "L", "S", "S", "I">> >>

\* The statistics of that game: the updates of updateForClear for the nine
\* rows completed so far, no soft or hard drop, no hold.
LateStats ==
  [createInitialStats EXCEPT !.score = 1050, !.lines = 9, !.maxCombo = 2,
                             !.cleared = <<7, 1, 0, 0>>, !.pieces = 63,
                             !.playTime = 779]

\* That game as the I that ends the ninth bag has spawned: the queue is the
\* tenth bag.
InitLate ==
  /\ board = LateBoard
  /\ active = SpawnOf("I")
  /\ queue = BagTable[2]
  /\ hold = null
  /\ hasHeld = FALSE
  /\ status = "playing"
  /\ stats = LateStats
  /\ highScore = 0
  /\ timers = <<>>
  /\ lockTimeout = FALSE
  /\ elapsed = 0
  /\ softDropping = FALSE
  /\ gameOverRef = FALSE
  /\ drawn = <<"Z", "L", "J", "S", "T", "O", "I">>
  /\ budget = [FullBudget EXCEPT !.games = MaxGames - 1]

\* The behaviours from construction and from the games in progress.
SpecPlay == (Init \/ InitStack \/ InitLate) /\ [][Next]_vars

\* ------------------------------------------------------------ lock attempts
\* The guard every piece command starts with.
Playing == active # NoPiece /\ status = "playing"

\* The guard of holdPiece.
HoldAllowed == Playing /\ ~hasHeld

\* The ghost hardDrop hands to finalizeLock.
HardDropPiece == MovedBy(active, 0, DropDistance(board, active))

\* The timeout callback reaches finalizeLock(activeRef.current).
TimerLocks ==
  /\ IF Len(timers) = 0 THEN FALSE ELSE Head(timers).left = 0
  /\ Playing
  /\ ~canPlace(Head(timers).board, active, Offset(0, 1), 0)

\* finalizeLock finds a cell of the piece at a negative row.
TopsOut(piece) == \E c \in PieceCells(piece) : c[2] < 0

\* The steps that are a hold taking effect, a hard drop locking its ghost and a
\* timeout locking the active piece.  Each starts with what only that handler
\* does to the state.
HoldStep ==
  /\ HoldAllowed
  /\ hold' = active.type
  /\ stats'.pieces = stats.pieces + 1
  /\ holdPiece

HardDropStep ==
  /\ Playing
  /\ stats'.hardDrops = stats.hardDrops + 1
  /\ hardDrop

TimerLockStep ==
  /\ TimerLocks
  /\ Len(timers') = Len(timers) - 1
  /\ lockTimeoutFires

\* ------------------------------------------------------------ claims

\* C1: hold is allowed at most once per spawned piece: once a hold has taken
\* effect, a further hold is a no-op until a piece has been locked, also for
\* the piece the hold itself spawned.  Stated on the step: the state a hold
\* leaves does not allow a hold.
C1_HoldOncePerPiece ==
  [][HoldStep => ~HoldAllowed']_vars

\* C2: a hold while playing with an active piece of type A and hold not yet
\* used: with type H in the slot, the active piece becomes a fresh H at its
\* spawn position with rotation 0 and the slot holds A; with the slot empty,
\* the slot holds A and the active piece is the former head of the queue, which
\* is removed from the queue.  In both cases an active piece exists afterwards.
C2_HoldSwap ==
  [][HoldStep =>
       LET Fresh(t) == [type |-> t, rotation |-> 0,
                        position |-> [x |-> 3,
                                      y |-> IF t = "I" THEN -1 ELSE 0]]
       IN /\ hold' = active.type
          /\ active' # NoPiece
          /\ IF hold # null
               THEN /\ active' = Fresh(hold)
                    /\ queue' = queue
               ELSE /\ active' = Fresh(Head(queue))
                    /\ SubSeq(queue', 1, Len(queue) - 1) = Tail(queue)]_vars

\* C2 witness: two holds on the first pieces of a game, the second one with a
\* type in the slot.
C2_Witness ==
  /\ board = createEmptyBoard
  /\ stats.pieces = 3
  /\ budget.spawns = MaxSpawns - 2
  /\ hold # null
  /\ active # NoPiece

\* C3: top-out: a lock attempt on a piece with a cell at a row < 0 sets status
\* to gameover, leaves the board as it was, leaves no active piece and spawns
\* no new piece.
C3_TopOut ==
  [][LET Outcome == /\ status' = "gameover"
                    /\ board' = board
                    /\ active' = NoPiece
                    /\ queue' = queue
                    /\ stats'.pieces = stats.pieces
     IN /\ (HardDropStep /\ TopsOut(HardDropPiece)) => Outcome
        /\ (TimerLockStep /\ TopsOut(active)) => Outcome]_vars

\* C4: the lock delay of a grounded piece completes: repeated failed gravity
\* descents, also with the soft-drop input held, never postpone the lock.
\* Stated on the step: a drop-loop tick leaves a pending lock-delay timeout of
\* the active piece as it is.
C4_LockDelayCompletes ==
  [][(Playing /\ lockTimeout /\ elapsed' = 0 /\ dropLoop) => timers' = timers]_vars

\* C5: every structural change invalidates a previously armed lock-delay
\* timer: right after a successful move, a successful rotation, a hold, a lock
\* followed by a spawn (by timer expiry or by hard drop) and a start or
\* restart, no lock-delay timer armed before it is pending.
C5_TimerInvalidated ==
  [][(\/ \E dir \in {-1, 1} : active' # active /\ movePiece(dir)
      \/ \E dir \in {-1, 1} : active' # active /\ rotatePiece(dir)
      \/ HoldStep
      \/ active' # NoPiece /\ HardDropStep
      \/ active' # NoPiece /\ TimerLockStep
      \/ status' = "playing" /\ board' = createEmptyBoard /\ startGame)
     => timers' = <<>>]_vars

\* C6: a lock that clears n lines awards base(n) x (L+1) + bonus, with base
\* 0/100/300/500/800 for n = 0..4, L the level before the lock, bonus
\* (k-1) x 50 x (L+1) for the combo streak k including this lock; the award is
\* the same for a lock by lock-delay expiry and by hard drop.
C6_LineClearAward ==
  [][LET Lines(piece) ==
           Cardinality({y \in 1..BOARD_HEIGHT :
              \A x \in 1..BOARD_WIDTH :
                 board[y][x] # null \/ <<x - 1, y - 1>> \in PieceCells(piece)})
         Base(n) == IF n = 0 THEN 0
                    ELSE IF n = 1 THEN 100
                    ELSE IF n = 2 THEN 300
                    ELSE IF n = 3 THEN 500
                    ELSE IF n = 4 THEN 800
                    ELSE n * 200
         Award(n) == Base(n) * (stats.level + 1)
                     + (IF n > 0 /\ stats.combo + 1 > 1
                          THEN stats.combo * 50 * (stats.level + 1) ELSE 0)
     IN /\ (HardDropStep /\ ~TopsOut(HardDropPiece)) =>
             stats'.score = stats.score
                            + DropDistance(board, active) * DROP_SCORE * 3
                            + Award(Lines(HardDropPiece))
        /\ (TimerLockStep /\ ~TopsOut(active)) =>
             stats'.score = stats.score + Award(Lines(active))]_vars

\* C7: after a lock that is not a top-out the board is the board with the
\* piece merged, the rows without an empty cell removed, the other rows in
\* their order, and as many empty rows on top as rows were removed; the
\* cleared count clearLines reports is the number of rows removed.
C7_Compaction ==
  [][LET Merged(piece) ==
           [y \in 1..BOARD_HEIGHT |-> [x \in 1..BOARD_WIDTH |->
              IF <<x - 1, y - 1>> \in PieceCells(piece) THEN piece.type
                                                        ELSE board[y][x]]]
         Full(m) == {y \in 1..BOARD_HEIGHT :
                       \A x \in 1..BOARD_WIDTH : m[y][x] # null}
         Ok(piece) ==
           \A m \in {Merged(piece)} : \A full \in {Full(m)} :
             LET kept == (1..BOARD_HEIGHT) \ full
                 removed == Cardinality(full)
                 Above(y) == Cardinality({z \in kept : z < y})
             IN /\ Len(board') = BOARD_HEIGHT
                /\ \A i \in 1..removed :
                     board'[i] = [x \in 1..BOARD_WIDTH |-> null]
                /\ \A y \in kept : board'[removed + Above(y) + 1] = m[y]
                /\ clearLines(m).clearedLines = removed
     IN /\ (HardDropStep /\ ~TopsOut(HardDropPiece)) => Ok(HardDropPiece)
        /\ (TimerLockStep /\ ~TopsOut(active)) => Ok(active)]_vars

\* C7 witness: a row has been cleared: locks add four cells each, a cleared
\* row takes ten away.
C7_Witness ==
  Cardinality({c \in (1..BOARD_WIDTH) \X (1..BOARD_HEIGHT) :
                 board[c[2]][c[1]] # null}) % 4 = 2

\* C8: rotate(dir) tries the offsets (0,0), (-1,0), (+1,0), (0,-1), (0,+1) in
\* that order against the target rotation and applies the first one canPlace
\* accepts, setting rotation to (rotation + dir) mod N and shifting the
\* position by it; if canPlace fails for all five, rotation and position are
\* unchanged.
C8_RotationKicks ==
  /\ [][\A dir \in {-1, 1} :
          LET offsets == << <<0, 0>>, <<-1, 0>>, <<1, 0>>, <<0, -1>>, <<0, 1>> >>
              N == Len(getRotations(active.type))
              Accepts(i) == canPlace(board, active,
                                     Offset(offsets[i][1], offsets[i][2]), dir)
              Applied(i) ==
                active' = Piece(active.type, (active.rotation + dir + N) % N,
                                active.position.x + offsets[i][1],
                                active.position.y + offsets[i][2])
          IN (Playing /\ active' # active /\ rotatePiece(dir)) =>
               \E i \in 1..5 : /\ Accepts(i)
                               /\ \A j \in 1..(i - 1) : ~Accepts(j)
                               /\ Applied(i)]_vars
  /\ [](\A dir \in {-1, 1} :
          (/\ Playing
           /\ \A o \in {<<0, 0>>, <<-1, 0>>, <<1, 0>>, <<0, -1>>, <<0, 1>>} :
                ~canPlace(board, active, Offset(o[1], o[2]), dir))
          => ~ENABLED (rotatePiece(dir) /\ active' # active))

\* C8 witness: the one rotation made so far was applied with a sideways kick,
\* and the rotation back is refused at all five offsets.
C8_Witness ==
  /\ Playing
  /\ budget.moves = MaxMoves - 1
  /\ active.rotation # 0
  /\ active.position.x # SpawnOf(active.type).position.x
  /\ \E dir \in {-1, 1} : FirstKick(board, active, dir) = 0

\* C9: canPlace(piece, offset, rotationShift) is false exactly when a cell of
\* the shape at rotation (rotation + rotationShift) mod N, translated by
\* position + offset, has a column outside [0,10), or a row >= 20, or a row
\* >= 0 whose board cell is occupied; cells at negative rows are free.  On an
\* empty board it accepts the spawn configuration (x = 3, y = -1 for I and 0
\* otherwise, rotation 0) of each of the 7 types.
C9_CanPlace ==
  /\ \A t \in {"I", "J", "L", "O", "S", "T", "Z"} :
       /\ SpawnOf(t) = [type |-> t, rotation |-> 0,
                        position |-> [x |-> 3, y |-> IF t = "I" THEN -1 ELSE 0]]
       /\ canPlace(createEmptyBoard, SpawnOf(t), Offset(0, 0), 0)
  /\ active # NoPiece =>
       \A dx \in -1..1, dy \in -1..1, shift \in -1..1 :
         LET N == Len(TETROMINOES[active.type])
             shape == TETROMINOES[active.type]
                        [((active.rotation + shift + N) % N) + 1]
             Blocked(col, row) ==
               \/ col < 0 \/ col >= 10
               \/ row >= 20
               \/ row >= 0 /\ board[row + 1][col + 1] # null
         IN canPlace(board, active, Offset(dx, dy), shift)
              = ~(\E j \in 1..Len(shape), i \in 1..Len(shape[1]) :
                    /\ shape[j][i] = 1
                    /\ Blocked(active.position.x + dx + i - 1,
                               active.position.y + dy + j - 1))

\* C9 witness: a lock-delay timeout is pending for a piece that canPlace has
\* refused to move down onto an occupied cell and that has a cell at a
\* negative row.
C9_Witness ==
  /\ Playing
  /\ lockTimeout
  /\ ~canPlace(board, active, Offset(0, 1), 0)
  /\ TopsOut(active)

\* C10: status changes only along ready -> playing, playing -> paused,
\* paused -> playing, playing -> gameover (a top-out) and gameover -> playing;
\* a pause toggle in ready or gameover leaves status unchanged.
C10_StatusEdges ==
  [][/\ status' # status =>
          <<status, status'>> \in {<<"ready", "playing">>,
                                   <<"playing", "paused">>,
                                   <<"paused", "playing">>,
                                   <<"playing", "gameover">>,
                                   <<"gameover", "playing">>}
     /\ (status' = "gameover" /\ status # "gameover") =>
          (TopsOut(active) /\ (HardDropStep \/ TimerLockStep))
     /\ togglePauseStatus("ready") = "ready"
     /\ togglePauseStatus("gameover") = "gameover"]_vars

\* C10 witness: a top-out has ended the game.
C10_Witness == status = "gameover" /\ gameOverRef

\* A step that is startGame: the Start and Restart buttons, Space and Enter.
StartStep ==
  /\ status' = "playing"
  /\ board' = createEmptyBoard
  /\ stats'.pieces = 1
  /\ startGame

\* C11: while the status is ready, paused or gameover, no piece command, no
\* gravity tick, no play-time tick and no firing lock-delay timeout changes
\* the board, the active piece, the queue, the hold slot or the statistics;
\* after a top-out they stay as they are until the game is started again.
\* Only startGame changes them in such a status.
C11_FrozenWhileNotPlaying ==
  [][(status # "playing" /\ ~StartStep)
       => UNCHANGED <<board, active, queue, hold, stats>>]_vars

\* A paused game with a grounded piece whose lock-delay timeout is due and
\* whose gravity tick is due.
C11_Witness ==
  /\ status = "paused"
  /\ active # NoPiece
  /\ IF Len(timers) = 0 THEN FALSE ELSE Head(timers).left = 0
  /\ ~canPlace(Head(timers).board, active, Offset(0, 1), 0)
  /\ elapsed >= calculateDropInterval(stats.level)

\* A step in which spawnPiece() takes the next piece from the queue: after a
\* hard drop, after a lock by the timeout, and in a hold with the slot empty.
QueueSpawnStep ==
  /\ stats'.pieces = stats.pieces + 1
  /\ \/ HardDropStep
     \/ TimerLockStep
     \/ hold = null /\ HoldStep

\* C12: the queue never runs dry.  It is non-empty in every reachable state and
\* holds between 7 and 13 types once a game has been started; a spawn takes
\* the type at the head of the queue, leaves the rest in order and leaves
\* between 7 and 13 types, so the empty-queue fallback is never needed.
C12_QueueNeverDry ==
  /\ [](/\ Len(queue) > 0
        /\ \A i \in 1..Len(queue) : queue[i] \in TetrominoType
        /\ status # "ready" => Len(queue) \in 7..13)
  /\ [][QueueSpawnStep
          => /\ active' = SpawnOf(Head(queue))
             /\ Len(queue') \in 7..13
             /\ SubSeq(queue', 1, Len(queue) - 1) = Tail(queue)]_vars
  /\ [][StartStep => Len(queue') = 13]_vars

\* A spawn has shifted the queue below seven types and appended a new bag.
C12_Witness ==
  /\ status = "playing"
  /\ stats.pieces > 1
  /\ Len(queue) = 13

\* Every bag generateBag can return.
AllBags == {shuffle(draws) : draws \in RandomDraws}

\* bag holds each of the seven types exactly once.
IsBag(bag) ==
  /\ Len(bag) = Len(ALL_TETROMINOES)
  /\ \A type \in TetrominoType :
       Cardinality({i \in 1..Len(bag) : bag[i] = type}) = 1

\* generateBag returns a permutation of the seven types whatever the draws,
\* and the bags the model chooses from are among them.
generateBagPermutes ==
  /\ \A bag \in AllBags : IsBag(bag)
  /\ generateBag \subseteq AllBags

\* C13: the types taken from the queue from the start of a game on, the first
\* piece included and the pieces a hold swaps back in excluded, come in
\* consecutive groups of seven that hold each type exactly once, i.e. no type
\* comes twice within a group; generateBag always returns a permutation of
\* the seven types.
C13_SevenBag ==
  /\ generateBagPermutes
  /\ Len(drawn) <= Len(ALL_TETROMINOES)
  /\ \A i, j \in 1..Len(drawn) : i # j => drawn[i] # drawn[j]
  /\ status # "ready" => /\ Len(drawn) > 0
                         /\ hold # null \/ active = NoPiece
                              \/ active.type = drawn[Len(drawn)]

\* A spawn has started a new group of seven after a complete one.
C13_Witness ==
  /\ status = "playing"
  /\ stats.pieces > 1
  /\ Len(drawn) = 1

\* C14: a hard drop while playing moves the piece down the largest number d of
\* rows it can legally descend, adds d x 2 x 3 to the score and one to the
\* hard-drop count, and locks the piece at that resting position in the same
\* step: no lock-delay timeout is armed or waited for.  On top of the drop
\* points the score may hold the award of updateForClear for the rows the
\* statistics count as cleared in that step.
C14_HardDrop ==
  [][HardDropStep =>
       \E d \in 0..(BOARD_HEIGHT + 4) :
         /\ \A e \in 1..d : canPlace(board, active, Offset(0, e), 0)
         /\ ~canPlace(board, active, Offset(0, d + 1), 0)
         /\ stats'.hardDrops = stats.hardDrops + 1
         /\ \A n \in {stats'.lines - stats.lines} :
              stats'.score = d * DROP_SCORE * 3
                             + (IF n = 0 THEN stats.score
                                ELSE updateForClear(stats, n).score)
         /\ ~TopsOut(MovedBy(active, 0, d))
              => board' = LockBoard(board, MovedBy(active, 0, d)).next
         /\ Len(timers') <= Len(timers)
         /\ ~lockTimeout']_vars

\* A hard drop has moved a piece down two rows and locked it.
C14_Witness ==
  /\ stats.hardDrops = 1
  /\ stats.score = 2 * DROP_SCORE * 3
  /\ board # StackBoard
  /\ board # createEmptyBoard
  /\ status = "playing"

\* A soft-drop command for a piece in play: ArrowDown / KeyS or the button.
SoftDropStep ==
  /\ Playing
  /\ softDropKey \/ softDropButton

\* C15: a soft-drop command for a piece that can descend moves it down exactly
\* one row, adds 2 to the score and resets the fall-timer reference of gravity
\* to the current time; for a piece that cannot descend it does not lock the
\* piece, leaves its position, the board and the score as they are, and a
\* lock-delay timeout is pending afterwards.
C15_SoftDrop ==
  [][SoftDropStep =>
       IF canPlace(board, active, Offset(0, 1), 0)
         THEN /\ active' = MovedBy(active, 0, 1)
              /\ stats'.score = stats.score + DROP_SCORE
              /\ elapsed' = 0
         ELSE /\ active' = active
              /\ board' = board
              /\ stats' = stats
              /\ lockTimeout'
              /\ Len(timers') > 0]_vars

\* The steps that pause and resume, and the step of a gravity tick that
\* attempts a descent.
PauseStep == status = "playing" /\ status' = "paused" /\ togglePause

ResumeStep == status = "paused" /\ status' = "playing" /\ togglePause

GravityStep == status = "playing" /\ elapsed' = 0 /\ dropLoop

\* C16: pausing leaves the type, position and rotation of the active piece
\* unchanged and stops gravity: while paused no step moves or locks the
\* piece, a lock-delay timeout that fires included.  Resuming sets the fall
\* reference to the resume instant, and a gravity tick attempts a descent only
\* when a full drop interval has passed since the reference.  A piece that is
\* grounded can still lock after the resume: the gravity tick that finds it
\* blocked leaves a lock-delay timeout with the full delay pending.
C16_PauseResume ==
  /\ [][PauseStep => active' = active /\ board' = board]_vars
  /\ [][(status = "paused" /\ ~StartStep)
          => active' = active /\ board' = board /\ stats' = stats]_vars
  /\ [][ResumeStep => active' = active /\ elapsed' = 0]_vars
  /\ [][GravityStep
          => /\ elapsed >= (IF softDropping THEN SOFT_DROP_SPEED
                            ELSE calculateDropInterval(stats.level))
             /\ (Playing /\ ~canPlace(board, active, Offset(0, 1), 0))
                  => /\ lockTimeout'
                     /\ Len(timers') > 0
                     /\ timers'[Len(timers')] = Armed(board)]_vars

\* A game resumed with a grounded piece: its lock-delay timeout, armed before
\* the pause, is still pending and the fall reference is the resume instant.
C16_Witness ==
  /\ Playing
  /\ ~canPlace(board, active, Offset(0, 1), 0)
  /\ elapsed = 0
  /\ lockTimeout
  /\ Len(timers) > 0
  /\ timers[Len(timers)].left < LOCK_DELAY

CompletedRows(piece) ==
  Cardinality({y \in 1..BOARD_HEIGHT :
     \A x \in 1..BOARD_WIDTH :
        board[y][x] # null \/ <<x - 1, y - 1>> \in PieceCells(piece)})

\* C19: the combo is the number of the most recent consecutive locks that
\* cleared at least one line each.  A lock that clears no line sets it to 0, a
\* lock that clears one or more lines adds exactly 1 to it, a top-out sets it
\* to 0, and no other step changes it; maxCombo is the largest combo reached
\* since the game started.
C19_Combo ==
  [][/\ (HardDropStep /\ ~TopsOut(HardDropPiece))
          => stats'.combo = IF CompletedRows(HardDropPiece) = 0
                              THEN 0 ELSE stats.combo + 1
     /\ (TimerLockStep /\ ~TopsOut(active))
          => stats'.combo = IF CompletedRows(active) = 0
                              THEN 0 ELSE stats.combo + 1
     /\ (HardDropStep /\ TopsOut(HardDropPiece)) => stats'.combo = 0
     /\ (TimerLockStep /\ TopsOut(active)) => stats'.combo = 0
     /\ ~(HardDropStep \/ TimerLockStep \/ StartStep)
          => stats'.combo = stats.combo
     /\ ~StartStep => stats'.maxCombo = Max(stats.maxCombo, stats'.combo)]_vars

\* C20: a lock-delay timeout that fires locks only the piece that was active
\* when it was armed: never a piece spawned after it was armed, such as the
\* piece that follows a hard drop, and never a piece of the game started
\* after it was armed.
C20_TimerLocksOwnPiece ==
  [][TimerLockStep => Head(timers).current]_vars

\* The drop interval dropLoop compares the elapsed time with.
DropInterval ==
  IF softDropping THEN SOFT_DROP_SPEED ELSE calculateDropInterval(stats.level)

\* A step of dropLoop that passes its elapsed-time test.
TickStep == status = "playing" /\ elapsed' # elapsed /\ dropLoop

\* C21: while playing, a gravity tick attempts an automatic descent only when
\* the time since the last automatic descent has reached the drop interval;
\* it makes exactly one attempt however much time has passed, so the piece
\* moves down one row at most, and it resets the reference time to the time
\* of the tick.  An automatic descent adds 2 to the score only while the
\* soft-drop input is held.
C21_GravityTick ==
  /\ [][TickStep
          => /\ elapsed >= DropInterval
             /\ elapsed' = 0
             /\ board' = board
             /\ IF Playing /\ canPlace(board, active, Offset(0, 1), 0)
                  THEN /\ active' = MovedBy(active, 0, 1)
                       /\ stats' = [stats EXCEPT !.score =
                                      @ + (IF softDropping THEN DROP_SCORE
                                                           ELSE 0)]
                  ELSE active' = active /\ stats' = stats]_vars
  /\ []((status = "playing" /\ elapsed < DropInterval) => ~ENABLED dropLoop)

\* Gravity has moved a piece down one row from its spawn position, without
\* points, after more than a drop interval.
C21_Witness ==
  /\ Playing
  /\ active = MovedBy(SpawnOf(active.type), 0, 1)
  /\ elapsed = 0
  /\ ~softDropping
  /\ budget.rows = MaxRows - 1
  /\ stats.score = LateStats.score

\* ------------------------------------------------------------ the drop interval
\* The largest level the drop interval is examined at.
MaxLevel == 15

\* The statistics of a game that has reached level with single rows cleared
\* one lock apart, the board empty again: 25 pieces for every ten rows.
StatsAtLevel(level) ==
  [createInitialStats EXCEPT
     !.score = 5 * lineScores[2] * level * (level + 1),
     !.level = level,
     !.lines = LINES_PER_LEVEL * level,
     !.maxCombo = IF level > 0 THEN 1 ELSE 0,
     !.cleared = <<LINES_PER_LEVEL * level, 0, 0, 0>>,
     !.pieces = 25 * level + 1,
     !.playTime = 50 * level]

\* The times since the last automatic descent that lie next to a drop interval.
IntervalEdges ==
  {calculateDropInterval(level) + d : level \in 0..MaxLevel, d \in {-1, 0}}
    \cup {SOFT_DROP_SPEED - 1, SOFT_DROP_SPEED}

\* dropLoop with its inputs drawn from bounded sets: a piece at its spawn
\* position over the empty board, at every level up to MaxLevel, with the
\* soft-drop input held or not, at every time next to a drop interval.
InitInterval ==
  \E level \in 0..MaxLevel :
    LET bag == BagTable[1]
        pos == ((25 * level) % Len(bag)) + 1
    IN /\ board = createEmptyBoard
       /\ active = SpawnOf(bag[pos])
       /\ queue = SubSeq(bag, pos + 1, Len(bag)) \o bag
       /\ hold = null
       /\ hasHeld = FALSE
       /\ status = "playing"
       /\ stats = StatsAtLevel(level)
       /\ highScore = 0
       /\ timers = <<>>
       /\ lockTimeout = FALSE
       /\ elapsed \in IntervalEdges
       /\ softDropping \in BOOLEAN
       /\ gameOverRef = FALSE
       /\ drawn = SubSeq(bag, 1, pos)
       /\ budget = [FullBudget EXCEPT !.games = MaxGames - 1]

NextInterval ==
  \/ dropLoop
  \/ softDropKey
  \/ softDropKeyUp
  \/ advance

SpecInterval == InitInterval /\ [][NextInterval]_vars

\* C22: the drop interval gravity uses is max(90, 900 - 70 x level) ms at every
\* level >= 0 while the soft-drop input is not held, so it never grows with
\* the level and is never below 90 ms, and it is 40 ms while the soft-drop
\* input is held, whatever the level.  Stated on dropLoop: it attempts a
\* descent exactly when the elapsed time has reached that interval.
C22_DropInterval ==
  \A level \in {stats.level} :
  \A normal \in {IF 900 - 70 * level > 90 THEN 900 - 70 * level ELSE 90} :
  \A expected \in {IF softDropping THEN 40 ELSE normal} :
    /\ level >= 0
    /\ calculateDropInterval(level) = normal
    /\ calculateDropInterval(level) >= 90
    /\ level > 0
         => calculateDropInterval(level) <= calculateDropInterval(level - 1)
    /\ (status = "playing" /\ elapsed < expected) => ~ENABLED dropLoop
    /\ (status = "playing" /\ elapsed >= expected /\ timers = <<>>
          /\ budget.rows > 0) => ENABLED dropLoop

\* Gravity has moved a piece down at a level where the interval is the lower
\* limit of 90 ms.
C22_Witness ==
  /\ stats.level > 11
  /\ ~softDropping
  /\ elapsed = 0
  /\ Playing
  /\ active = MovedBy(SpawnOf(active.type), 0, 1)
  /\ stats.score = StatsAtLevel(stats.level).score

\* C23: move(dir), dir -1 or +1.  If canPlace holds one column to the side, x
\* changes by exactly dir, y, rotation and type stay, and any pending
\* lock-delay timeout is cancelled.  Otherwise the move does
\* nothing: the piece stays as it is and a pending lock-delay timeout stays
\* armed with its deadline.  Board, queue, hold slot and statistics are
\* unchanged in both cases.
C23_Move ==
  /\ [][\A dir \in {-1, 1} :
          (Playing /\ active' # active /\ movePiece(dir))
            => /\ canPlace(board, active, Offset(dir, 0), 0)
               /\ active' = Piece(active.type, active.rotation,
                                  active.position.x + dir, active.position.y)
               /\ ~lockTimeout'
               /\ timers' = <<>>
               /\ UNCHANGED <<board, queue, hold, stats>>]_vars
  /\ [](\A dir \in {-1, 1} :
          (Playing /\ ~canPlace(board, active, Offset(dir, 0), 0))
            => ~ENABLED (/\ movePiece(dir)
                         /\ <<board, active, queue, hold, stats, timers,
                              lockTimeout>>'
                              # <<board, active, queue, hold, stats, timers,
                                   lockTimeout>>))
  /\ [](\A dir \in {-1, 1} :
          (Playing /\ canPlace(board, active, Offset(dir, 0), 0)
             /\ budget.moves > 0)
            => ENABLED (movePiece(dir) /\ active' # active))

\* C24: no idle gap.  A lock that is not a top-out has spawned the next piece
\* when its step completes, so in every reachable state with the status
\* playing there is an active piece, and with the status ready or gameover
\* there is none.
C24_NoIdleGap ==
  /\ [](/\ status = "playing" => active # NoPiece
        /\ status \in {"ready", "gameover"} => active = NoPiece
        /\ active # NoPiece => active.type \in TetrominoType)
  /\ [][((HardDropStep /\ ~TopsOut(HardDropPiece))
           \/ (TimerLockStep /\ ~TopsOut(active)))
          => active' = SpawnOf(Head(queue)) /\ status' = "playing"]_vars

\* A piece has been locked on one of the boards of the games in progress and
\* the next piece is at its spawn position.
C24_Witness ==
  /\ status = "playing"
  /\ board \notin {createEmptyBoard, StackBoard, LateBoard}
  /\ active = SpawnOf(active.type)
  /\ active.type \in TetrominoType
  /\ hold = null

\* C25: start and restart, from any status, yield a fresh session: status
\* playing, an empty board, statistics all zero except pieces = 1, an empty
\* hold slot with the hold flag cleared, no pending lock-delay timeout, a
\* queue of 13 types, and an active piece that is the first piece of a fresh
\* bag at its spawn position with rotation 0.  No other step resets the
\* statistics: none lowers the score, the lines, the pieces or the play time.
C25_FreshSession ==
  /\ [][StartStep
          => /\ status' = "playing"
             /\ board' = createEmptyBoard
             /\ stats' = [createInitialStats EXCEPT !.pieces = 1]
             /\ hold' = null
             /\ ~hasHeld'
             /\ ~lockTimeout'
             /\ timers' = <<>>
             /\ Len(queue') = 2 * Len(ALL_TETROMINOES) - 1
             /\ active' = SpawnOf(active'.type)
             /\ IsBag(<<active'.type>>
                        \o SubSeq(queue', 1, Len(ALL_TETROMINOES) - 1))
             /\ IsBag(SubSeq(queue', Len(ALL_TETROMINOES), Len(queue')))]_vars
  /\ [][~StartStep
          => /\ stats'.score >= stats.score
             /\ stats'.lines >= stats.lines
             /\ stats'.pieces >= stats.pieces
             /\ stats'.playTime >= stats.playTime
             /\ stats'.hardDrops >= stats.hardDrops]_vars

\* The number of occupied cells of a board.
OccupiedCells(brd) ==
  Cardinality({c \in (1..BOARD_WIDTH) \X (1..BOARD_HEIGHT) :
                 brd[c[2]][c[1]] # null})

\* C26: in every reachable state the board has exactly 20 rows of exactly 10
\* cells and no row of it is completely occupied: a completed row is removed
\* in the step of the lock that completed it.
C26_BoardShape ==
  /\ Len(board) = BOARD_HEIGHT
  /\ \A y \in 1..Len(board) :
       /\ Len(board[y]) = BOARD_WIDTH
       /\ RowHasEmpty(board[y])

\* A lock has completed a row of the stack and the row is gone.
C26_Witness ==
  /\ stats.lines = 1
  /\ stats.cleared[1] = 1
  /\ OccupiedCells(board) < OccupiedCells(StackBoard)

\* The cells of piece that are occupied on the board.
Overwritten(piece) ==
  {c \in PieceCells(piece) :
     /\ c[1] + 1 \in 1..BOARD_WIDTH
     /\ c[2] + 1 \in 1..BOARD_HEIGHT
     /\ board[c[2] + 1][c[1] + 1] # null}

\* C27: a lock never overwrites a locked cell.  Every board cell a lock writes
\* was empty immediately before the lock, so a lock that clears no line adds
\* exactly 4 to the number of occupied cells, also for a piece that spawned
\* on occupied cells and could not move before it locked.
C27_LockWritesEmptyCells ==
  /\ [][(HardDropStep /\ ~TopsOut(HardDropPiece))
          => /\ Overwritten(HardDropPiece) = {}
             /\ CompletedRows(HardDropPiece) = 0
                  => OccupiedCells(board') = OccupiedCells(board) + 4]_vars
  /\ [][(TimerLockStep /\ ~TopsOut(active))
          => /\ Overwritten(active) = {}
             /\ CompletedRows(active) = 0
                  => OccupiedCells(board') = OccupiedCells(board) + 4]_vars

\* Every cell of piece is in a column of the board and above its floor.
InsideWalls(piece) ==
  \A c \in PieceCells(piece) :
    /\ c[1] >= 0
    /\ c[1] < BOARD_WIDTH
    /\ c[2] < BOARD_HEIGHT

\* The moves and the descents explored next to the walls and the floor, and
\* the rows the piece has fallen before.
MaxWallMoves == 6

MaxWallRows == 3

WallDepth == 16

\* A game on the empty board whose first piece, of any type, is at its spawn
\* position or has fallen WallDepth rows by gravity.
InitWalls ==
  \E type \in TetrominoType, depth \in {0, WallDepth} :
    LET bag == CHOOSE b \in AllBags : Head(b) = type
    IN /\ board = createEmptyBoard
       /\ active = MovedBy(SpawnOf(type), 0, depth)
       /\ queue = Tail(bag) \o BagTable[1]
       /\ hold = null
       /\ hasHeld = FALSE
       /\ status = "playing"
       /\ stats = [createInitialStats EXCEPT
                     !.pieces = 1,
                     !.playTime = (depth * calculateDropInterval(0)) \div 1000]
       /\ highScore = 0
       /\ timers = <<>>
       /\ lockTimeout = FALSE
       /\ elapsed = 0
       /\ softDropping = FALSE
       /\ gameOverRef = FALSE
       /\ drawn = <<type>>
       /\ budget = [NoBudget EXCEPT !.moves = MaxWallMoves,
                                    !.rows = MaxWallRows]

NextWalls ==
  \/ \E dir \in {-1, 1} : movePiece(dir)
  \/ \E dir \in {-1, 1} : rotatePiece(dir)
  \/ softDropButton

SpecWalls == InitWalls /\ [][NextWalls]_vars

\* C28: in every reachable state the rotation index of the active piece is in
\* 0..N-1 for the N rotations of its type, and every cell of the piece has its
\* column in [0, 10) and its row below 20; the same holds for the ghost a hard
\* drop locks, so a lock never writes outside the board.  Only rows may be
\* negative.
C28_PieceInsideWalls ==
  active # NoPiece
    => /\ active.rotation \in 0..(Len(getRotations(active.type)) - 1)
       /\ InsideWalls(active)
       /\ InsideWalls(HardDropPiece)

\* A rotated piece in the bottom left corner of the board: it can go neither
\* left nor down.
C28_Witness ==
  /\ status = "playing"
  /\ active # NoPiece
  /\ active.rotation # 0
  /\ \E c \in PieceCells(active) : c[1] = 0
  /\ \E c \in PieceCells(active) : c[2] = BOARD_HEIGHT - 1
  /\ ~canPlace(board, active, Offset(-1, 0), 0)
  /\ ~canPlace(board, active, Offset(0, 1), 0)

\* C29: hold does not go through a lock.  A hold that takes effect leaves the
\* board, the score, the lines, the level, the combo and the clear counters
\* as they are; of the statistics it changes the pieces counter alone, by 1.
\* With an occupied slot it spawns the held type and leaves the queue as it
\* is; with an empty slot it spawns the head of the queue, which leaves the
\* queue.  The status and the high score stay.
C29_HoldFrame ==
  [][HoldStep
       => /\ board' = board
          /\ stats' = [stats EXCEPT !.pieces = @ + 1]
          /\ status' = status
          /\ highScore' = highScore
          /\ hold' = active.type
          /\ hold # null => /\ queue' = queue
                            /\ active' = SpawnOf(hold)
          /\ hold = null => /\ active' = SpawnOf(Head(queue))
                            /\ SubSeq(queue', 1, Len(queue) - 1) = Tail(queue)]_vars

\* Two holds on the stack board: the second swapped the I back in for the T
\* and took nothing from the queue.
C29_Witness ==
  /\ board = StackBoard
  /\ hold = StackQueue[1]
  /\ active = SpawnOf("I")
  /\ queue = Tail(StackQueue)
  /\ ~lockTimeout

\* The clear counters after a lock that clears n lines.
CountedClear(n) ==
  /\ stats'.lines = stats.lines + n
  /\ stats'.cleared = [i \in 1..4 |-> IF i = n THEN stats.cleared[i] + 1
                                               ELSE stats.cleared[i]]

\* The clear counters agree with each other.
CountersConsistent ==
  /\ stats.lines = 1 * stats.cleared[1] + 2 * stats.cleared[2]
                     + 3 * stats.cleared[3] + 4 * stats.cleared[4]
  /\ stats.tetrisCount = stats.cleared[4]

\* C30: the clear counters are consistent in every reachable state: lines =
\* 1 x cleared[0] + 2 x cleared[1] + 3 x cleared[2] + 4 x cleared[3] and
\* tetrisCount = cleared[3]; each lock that clears n lines, 1 <= n <= 4, by
\* hard drop or by lock-delay timeout, adds exactly 1 to cleared[n-1] and n to
\* lines.
C30_ClearCounters ==
  /\ [](CountersConsistent)
  /\ [][(HardDropStep /\ ~TopsOut(HardDropPiece)
           /\ CompletedRows(HardDropPiece) > 0)
          => CountedClear(CompletedRows(HardDropPiece))]_vars
  /\ [][(TimerLockStep /\ ~TopsOut(active) /\ CompletedRows(active) > 0)
          => CountedClear(CompletedRows(active))]_vars
====
